---- MODULE Spec2Model ----
(***************************************************************************)
(* Model of keystone/api/groups.py: the flask-restful resources for        *)
(* /v3/groups.  Every handler is one action: it builds the enforcement     *)
(* target (where the handler has one), calls the policy enforcer, calls    *)
(* the identity backend and shapes the response.  The identity backend and *)
(* the enforcer are collaborators outside this file; they are modelled     *)
(* from their documented contracts.                                        *)
(***************************************************************************)
EXTENDS Integers, FiniteSets, Sequences, TLC

VARIABLES groups, users, members, before, request, response, target, calls

vars == <<groups, users, members, before, request, response, target, calls>>

----------------------------------------------------------------------------
(* Bounds of the model *)

NGroups == 1
NUsers == 1

GroupIds == 1..NGroups
UserIds == 1..NUsers
Names == {"a", "b"}

(* http_client status codes *)
OK == 200
CREATED == 201
NO_CONTENT == 204

----------------------------------------------------------------------------
(* Values *)

EmptyTarget == [k \in {} |-> [id |-> 0]]
NoId == 0
NoBody == [id |-> NoId, name |-> "", valid |-> TRUE]

NotFoundKinds == {"GroupNotFound", "UserNotFound", "NotFound"}

Backend == [groups |-> groups, users |-> users, members |-> members]

GroupRef(b, gid) == [id |-> gid, name |-> b.groups[gid]]
UserRef(b, uid) == [id |-> uid]

(* One entry of the log of collaborator calls a handler made. *)
Call(c, ph, e) == [call |-> c, phase |-> ph, err |-> e]

Ok(v, b) == [err |-> "none", val |-> v, backend |-> b]
Err(e, b) == [err |-> e, val |-> {}, backend |-> b]

----------------------------------------------------------------------------
(* Identity backend (PROVIDERS.identity_api).  `fail` injects a failure    *)
(* that is not a NotFound (the driver being unavailable, say).             *)

get_group(b, group_id, fail) ==
    IF fail THEN Err("Unexpected", b)
    ELSE IF group_id \notin DOMAIN b.groups THEN Err("GroupNotFound", b)
    ELSE Ok(GroupRef(b, group_id), b)

get_user(b, user_id, fail) ==
    IF fail THEN Err("Unexpected", b)
    ELSE IF user_id \notin b.users THEN Err("UserNotFound", b)
    ELSE Ok(UserRef(b, user_id), b)

list_groups(b, fail) ==
    IF fail THEN Err("Unexpected", b)
    ELSE Ok({GroupRef(b, g) : g \in DOMAIN b.groups}, b)

create_group(b, new_id, group, fail) ==
    IF fail THEN Err("Unexpected", b)
    ELSE LET gs == [g \in DOMAIN b.groups \cup {new_id} |->
                       IF g = new_id THEN group.name ELSE b.groups[g]]
         IN Ok([id |-> new_id, name |-> group.name], [b EXCEPT !.groups = gs])

update_group(b, group_id, group, fail) ==
    IF fail THEN Err("Unexpected", b)
    ELSE IF group_id \notin DOMAIN b.groups THEN Err("GroupNotFound", b)
    ELSE Ok([id |-> group_id, name |-> group.name],
            [b EXCEPT !.groups[group_id] = group.name])

delete_group(b, group_id, fail) ==
    IF fail THEN Err("Unexpected", b)
    ELSE IF group_id \notin DOMAIN b.groups THEN Err("GroupNotFound", b)
    ELSE Ok({}, [b EXCEPT
                   !.groups = [g \in DOMAIN b.groups \ {group_id} |-> b.groups[g]],
                   !.members = {m \in b.members : m[2] # group_id}])

list_users_in_group(b, group_id, fail) ==
    IF fail THEN Err("Unexpected", b)
    ELSE IF group_id \notin DOMAIN b.groups THEN Err("GroupNotFound", b)
    ELSE Ok({UserRef(b, u) : u \in {v \in b.users : <<v, group_id>> \in b.members}}, b)

check_user_in_group(b, user_id, group_id, fail) ==
    IF fail THEN Err("Unexpected", b)
    ELSE IF group_id \notin DOMAIN b.groups THEN Err("GroupNotFound", b)
    ELSE IF user_id \notin b.users THEN Err("UserNotFound", b)
    ELSE IF <<user_id, group_id>> \notin b.members THEN Err("NotFound", b)
    ELSE Ok({}, b)

add_user_to_group(b, user_id, group_id, fail) ==
    IF fail THEN Err("Unexpected", b)
    ELSE IF group_id \notin DOMAIN b.groups THEN Err("GroupNotFound", b)
    ELSE IF user_id \notin b.users THEN Err("UserNotFound", b)
    ELSE Ok({}, [b EXCEPT !.members = @ \cup {<<user_id, group_id>>}])

remove_user_from_group(b, user_id, group_id, fail) ==
    IF fail THEN Err("Unexpected", b)
    ELSE IF group_id \notin DOMAIN b.groups THEN Err("GroupNotFound", b)
    ELSE IF user_id \notin b.users THEN Err("UserNotFound", b)
    ELSE IF <<user_id, group_id>> \notin b.members THEN Err("NotFound", b)
    ELSE Ok({}, [b EXCEPT !.members = @ \ {<<user_id, group_id>>}])

----------------------------------------------------------------------------
(* Policy enforcer (ENFORCER.enforce_call).  `permit` is the decision the   *)
(* policy gives this caller for this action and target.                    *)

enforce_call(action, target_attr, permit, fail) ==
    IF fail THEN "Unexpected"
    ELSE IF permit THEN "none"
    ELSE "Forbidden"

(* validation.lazy_validate(schema, group) *)
lazy_validate(group) == IF group.valid THEN "none" ELSE "ValidationError"

(* ResourceBase._require_matching_id *)
_require_matching_id(group_id, group) ==
    IF group.id # NoId /\ group.id # group_id THEN "ValidationError" ELSE "none"

----------------------------------------------------------------------------
(* What a handler run produces. *)

Raise(e, t, cs, b) ==
    [response |-> [outcome |-> e, status |-> 0, kind |-> "error", items |-> {}],
     target |-> t, calls |-> cs, backend |-> b]

Return(kind, items, status, t, cs, b) ==
    [response |-> [outcome |-> "OK", status |-> status, kind |-> kind, items |-> items],
     target |-> t, calls |-> cs, backend |-> b]

----------------------------------------------------------------------------
(* GroupsResource *)

_get_group(b, group_id, permit, fault) ==
    LET e == enforce_call("identity:get_group", EmptyTarget, permit, fault = "enforce")
        c1 == <<Call("enforce_call", "enforce", e)>>
    IN IF e # "none" THEN Raise(e, EmptyTarget, c1, b)
       ELSE LET r == get_group(b, group_id, fault = "primary")
                c2 == c1 \o <<Call("get_group", "primary", r.err)>>
            IN IF r.err # "none" THEN Raise(r.err, EmptyTarget, c2, r.backend)
               ELSE Return("group", {r.val}, OK, EmptyTarget, c2, r.backend)

(* The filters, the hints and the domain scope select among the groups the *)
(* backend returns; the model keeps no domain and returns them all.        *)
_list_groups(b, permit, fault) ==
    LET e == enforce_call("identity:list_groups", EmptyTarget, permit, fault = "enforce")
        c1 == <<Call("enforce_call", "enforce", e)>>
    IN IF e # "none" THEN Raise(e, EmptyTarget, c1, b)
       ELSE LET r == list_groups(b, fault = "primary")
                c2 == c1 \o <<Call("list_groups", "primary", r.err)>>
            IN IF r.err # "none" THEN Raise(r.err, EmptyTarget, c2, r.backend)
               ELSE Return("groups", r.val, OK, EmptyTarget, c2, r.backend)

GroupsResource_get(b, group_id, permit, fault) ==
    IF group_id # NoId THEN _get_group(b, group_id, permit, fault)
    ELSE _list_groups(b, permit, fault)

(* _normalize_dict and _normalize_domain_id fill in fields the model does  *)
(* not keep; a group is its id and its name.                               *)
post(b, new_id, group, permit, fault) ==
    LET e == enforce_call("identity:create_group", EmptyTarget, permit, fault = "enforce")
        c1 == <<Call("enforce_call", "enforce", e)>>
    IN IF e # "none" THEN Raise(e, EmptyTarget, c1, b)
       ELSE IF lazy_validate(group) # "none"
            THEN Raise(lazy_validate(group), EmptyTarget, c1, b)
       ELSE LET r == create_group(b, new_id, group, fault = "primary")
                c2 == c1 \o <<Call("create_group", "primary", r.err)>>
            IN IF r.err # "none" THEN Raise(r.err, EmptyTarget, c2, r.backend)
               ELSE Return("group", {r.val}, CREATED, EmptyTarget, c2, r.backend)

(* Variant: the body's id is not compared with the path's. *)
patch_no_id_check(b, group_id, group, permit, fault) ==
    LET e == enforce_call("identity:update_group", EmptyTarget, permit, fault = "enforce")
        c1 == <<Call("enforce_call", "enforce", e)>>
    IN IF e # "none" THEN Raise(e, EmptyTarget, c1, b)
       ELSE IF lazy_validate(group) # "none"
            THEN Raise(lazy_validate(group), EmptyTarget, c1, b)
       ELSE LET r == update_group(b, group_id, group, fault = "primary")
                c2 == c1 \o <<Call("update_group", "primary", r.err)>>
            IN IF r.err # "none" THEN Raise(r.err, EmptyTarget, c2, r.backend)
               ELSE Return("group", {r.val}, OK, EmptyTarget, c2, r.backend)

patch(b, group_id, group, permit, fault) ==
    LET e == enforce_call("identity:update_group", EmptyTarget, permit, fault = "enforce")
        c1 == <<Call("enforce_call", "enforce", e)>>
    IN IF e # "none" THEN Raise(e, EmptyTarget, c1, b)
       ELSE IF lazy_validate(group) # "none"
            THEN Raise(lazy_validate(group), EmptyTarget, c1, b)
       ELSE IF _require_matching_id(group_id, group) # "none"
            THEN Raise(_require_matching_id(group_id, group), EmptyTarget, c1, b)
       ELSE LET r == update_group(b, group_id, group, fault = "primary")
                c2 == c1 \o <<Call("update_group", "primary", r.err)>>
            IN IF r.err # "none" THEN Raise(r.err, EmptyTarget, c2, r.backend)
               ELSE Return("group", {r.val}, OK, EmptyTarget, c2, r.backend)

(* Variant: the backend is called before the enforcer. *)
GroupsResource_delete_backend_first(b, group_id, permit, fault) ==
    LET r == delete_group(b, group_id, fault = "primary")
        c1 == <<Call("delete_group", "primary", r.err)>>
    IN IF r.err # "none" THEN Raise(r.err, EmptyTarget, c1, r.backend)
       ELSE LET e == enforce_call("identity:delete_group", EmptyTarget, permit,
                                  fault = "enforce")
                c2 == c1 \o <<Call("enforce_call", "enforce", e)>>
            IN IF e # "none" THEN Raise(e, EmptyTarget, c2, r.backend)
               ELSE Return("none", {}, NO_CONTENT, EmptyTarget, c2, r.backend)

(* Variant: deleting a group that does not exist succeeds. *)
GroupsResource_delete_idempotent(b, group_id, permit, fault) ==
    LET e == enforce_call("identity:delete_group", EmptyTarget, permit, fault = "enforce")
        c1 == <<Call("enforce_call", "enforce", e)>>
    IN IF e # "none" THEN Raise(e, EmptyTarget, c1, b)
       ELSE LET r == delete_group(b, group_id, fault = "primary")
                c2 == c1 \o <<Call("delete_group", "primary", r.err)>>
            IN IF r.err \notin {"none", "GroupNotFound"}
               THEN Raise(r.err, EmptyTarget, c2, r.backend)
               ELSE Return("none", {}, NO_CONTENT, EmptyTarget, c2, r.backend)

GroupsResource_delete(b, group_id, permit, fault) ==
    LET e == enforce_call("identity:delete_group", EmptyTarget, permit, fault = "enforce")
        c1 == <<Call("enforce_call", "enforce", e)>>
    IN IF e # "none" THEN Raise(e, EmptyTarget, c1, b)
       ELSE LET r == delete_group(b, group_id, fault = "primary")
                c2 == c1 \o <<Call("delete_group", "primary", r.err)>>
            IN IF r.err # "none" THEN Raise(r.err, EmptyTarget, c2, r.backend)
               ELSE Return("none", {}, NO_CONTENT, EmptyTarget, c2, r.backend)

----------------------------------------------------------------------------
(* GroupUsersResource *)

(* Variant: the target lookup is not guarded, GroupNotFound leaves the handler. *)
GroupUsersResource_get_unguarded(b, group_id, permit, fault) ==
    LET g == get_group(b, group_id, fault = "target_group")
        c0 == <<Call("get_group", "target", g.err)>>
        t == IF g.err = "none" THEN "group" :> g.val ELSE EmptyTarget
    IN IF g.err # "none" THEN Raise(g.err, EmptyTarget, c0, b)
       ELSE
       LET e == enforce_call("identity:list_users_in_group", t, permit, fault = "enforce")
           c1 == c0 \o <<Call("enforce_call", "enforce", e)>>
       IN IF e # "none" THEN Raise(e, t, c1, b)
          ELSE LET r == list_users_in_group(b, group_id, fault = "primary")
                   c2 == c1 \o <<Call("list_users_in_group", "primary", r.err)>>
               IN IF r.err # "none" THEN Raise(r.err, t, c2, r.backend)
                  ELSE Return("users", r.val, OK, t, c2, r.backend)

(* Variant: the target lookup absorbs every failure, not GroupNotFound only. *)
GroupUsersResource_get_bare_except(b, group_id, permit, fault) ==
    LET g == get_group(b, group_id, fault = "target_group")
        c0 == <<Call("get_group", "target", g.err)>>
        t == IF g.err = "none" THEN "group" :> g.val ELSE EmptyTarget
        e == enforce_call("identity:list_users_in_group", t, permit, fault = "enforce")
        c1 == c0 \o <<Call("enforce_call", "enforce", e)>>
    IN IF e # "none" THEN Raise(e, t, c1, b)
       ELSE LET r == list_users_in_group(b, group_id, fault = "primary")
                c2 == c1 \o <<Call("list_users_in_group", "primary", r.err)>>
            IN IF r.err # "none" THEN Raise(r.err, t, c2, r.backend)
               ELSE Return("users", r.val, OK, t, c2, r.backend)

GroupUsersResource_get(b, group_id, permit, fault) ==
    LET g == get_group(b, group_id, fault = "target_group")
        c0 == <<Call("get_group", "target", g.err)>>
        t == IF g.err = "none" THEN "group" :> g.val ELSE EmptyTarget
    IN IF g.err \notin {"none", "GroupNotFound"} THEN Raise(g.err, EmptyTarget, c0, b)
       ELSE
       LET e == enforce_call("identity:list_users_in_group", t, permit, fault = "enforce")
           c1 == c0 \o <<Call("enforce_call", "enforce", e)>>
       IN IF e # "none" THEN Raise(e, t, c1, b)
          ELSE LET r == list_users_in_group(b, group_id, fault = "primary")
                   c2 == c1 \o <<Call("list_users_in_group", "primary", r.err)>>
               IN IF r.err # "none" THEN Raise(r.err, t, c2, r.backend)
                  ELSE Return("users", r.val, OK, t, c2, r.backend)

----------------------------------------------------------------------------
(* UserGroupCRUDResource *)

(* Variant: GroupNotFound of the group lookup is not absorbed. *)
_build_enforcement_target_attr_group_unguarded(b, user_id, group_id, fault) ==
    LET g == get_group(b, group_id, fault = "target_group")
        c0 == <<Call("get_group", "target", g.err)>>
        tg == IF g.err = "none" THEN "group" :> g.val ELSE EmptyTarget
    IN IF g.err # "none"
       THEN [err |-> g.err, target |-> EmptyTarget, calls |-> c0]
       ELSE
       LET u == get_user(b, user_id, fault = "target_user")
           c1 == c0 \o <<Call("get_user", "target", u.err)>>
           tu == IF u.err = "none" THEN tg @@ ("user" :> u.val) ELSE tg
       IN IF u.err \notin {"none", "UserNotFound"}
          THEN [err |-> u.err, target |-> EmptyTarget, calls |-> c1]
          ELSE [err |-> "none", target |-> tu, calls |-> c1]

(* Variant: UserNotFound of the user lookup is not absorbed. *)
_build_enforcement_target_attr_user_unguarded(b, user_id, group_id, fault) ==
    LET g == get_group(b, group_id, fault = "target_group")
        c0 == <<Call("get_group", "target", g.err)>>
        tg == IF g.err = "none" THEN "group" :> g.val ELSE EmptyTarget
    IN IF g.err \notin {"none", "GroupNotFound"}
       THEN [err |-> g.err, target |-> EmptyTarget, calls |-> c0]
       ELSE
       LET u == get_user(b, user_id, fault = "target_user")
           c1 == c0 \o <<Call("get_user", "target", u.err)>>
           tu == IF u.err = "none" THEN tg @@ ("user" :> u.val) ELSE tg
       IN IF u.err # "none"
          THEN [err |-> u.err, target |-> EmptyTarget, calls |-> c1]
          ELSE [err |-> "none", target |-> tu, calls |-> c1]

_build_enforcement_target_attr(b, user_id, group_id, fault) ==
    LET g == get_group(b, group_id, fault = "target_group")
        c0 == <<Call("get_group", "target", g.err)>>
        tg == IF g.err = "none" THEN "group" :> g.val ELSE EmptyTarget
    IN IF g.err \notin {"none", "GroupNotFound"}
       THEN [err |-> g.err, target |-> EmptyTarget, calls |-> c0]
       ELSE
       LET u == get_user(b, user_id, fault = "target_user")
           c1 == c0 \o <<Call("get_user", "target", u.err)>>
           tu == IF u.err = "none" THEN tg @@ ("user" :> u.val) ELSE tg
       IN IF u.err \notin {"none", "UserNotFound"}
          THEN [err |-> u.err, target |-> EmptyTarget, calls |-> c1]
          ELSE [err |-> "none", target |-> tu, calls |-> c1]

(* Variant: 204 is returned without asking the backend. *)
UserGroupCRUDResource_get_no_check(b, group_id, user_id, permit, fault) ==
    LET t == _build_enforcement_target_attr(b, user_id, group_id, fault)
    IN IF t.err # "none" THEN Raise(t.err, EmptyTarget, t.calls, b)
       ELSE
       LET e == enforce_call("identity:check_user_in_group", t.target, permit,
                             fault = "enforce")
           c1 == t.calls \o <<Call("enforce_call", "enforce", e)>>
       IN IF e # "none" THEN Raise(e, t.target, c1, b)
          ELSE Return("none", {}, NO_CONTENT, t.target, c1, b)

(* Variant: the check calls add_user_to_group. *)
UserGroupCRUDResource_get_adding(b, group_id, user_id, permit, fault) ==
    LET t == _build_enforcement_target_attr(b, user_id, group_id, fault)
    IN IF t.err # "none" THEN Raise(t.err, EmptyTarget, t.calls, b)
       ELSE
       LET e == enforce_call("identity:check_user_in_group", t.target, permit,
                             fault = "enforce")
           c1 == t.calls \o <<Call("enforce_call", "enforce", e)>>
       IN IF e # "none" THEN Raise(e, t.target, c1, b)
          ELSE LET r == add_user_to_group(b, user_id, group_id, fault = "primary")
                   c2 == c1 \o <<Call("check_user_in_group", "primary", r.err)>>
               IN IF r.err # "none" THEN Raise(r.err, t.target, c2, r.backend)
                  ELSE Return("none", {}, NO_CONTENT, t.target, c2, r.backend)

UserGroupCRUDResource_get(b, group_id, user_id, permit, fault) ==
    LET t == _build_enforcement_target_attr(b, user_id, group_id, fault)
    IN IF t.err # "none" THEN Raise(t.err, EmptyTarget, t.calls, b)
       ELSE
       LET e == enforce_call("identity:check_user_in_group", t.target, permit,
                             fault = "enforce")
           c1 == t.calls \o <<Call("enforce_call", "enforce", e)>>
       IN IF e # "none" THEN Raise(e, t.target, c1, b)
          ELSE LET r == check_user_in_group(b, user_id, group_id, fault = "primary")
                   c2 == c1 \o <<Call("check_user_in_group", "primary", r.err)>>
               IN IF r.err # "none" THEN Raise(r.err, t.target, c2, r.backend)
                  ELSE Return("none", {}, NO_CONTENT, t.target, c2, r.backend)

(* Variant: a NotFound of add_user_to_group is absorbed. *)
put_masking(b, group_id, user_id, permit, fault) ==
    LET t == _build_enforcement_target_attr(b, user_id, group_id, fault)
    IN IF t.err # "none" THEN Raise(t.err, EmptyTarget, t.calls, b)
       ELSE
       LET e == enforce_call("identity:add_user_to_group", t.target, permit,
                             fault = "enforce")
           c1 == t.calls \o <<Call("enforce_call", "enforce", e)>>
       IN IF e # "none" THEN Raise(e, t.target, c1, b)
          ELSE LET r == add_user_to_group(b, user_id, group_id, fault = "primary")
                   c2 == c1 \o <<Call("add_user_to_group", "primary", r.err)>>
               IN IF r.err \notin {"none"} \cup NotFoundKinds
                  THEN Raise(r.err, t.target, c2, r.backend)
                  ELSE Return("none", {}, NO_CONTENT, t.target, c2, r.backend)

put(b, group_id, user_id, permit, fault) ==
    LET t == _build_enforcement_target_attr(b, user_id, group_id, fault)
    IN IF t.err # "none" THEN Raise(t.err, EmptyTarget, t.calls, b)
       ELSE
       LET e == enforce_call("identity:add_user_to_group", t.target, permit,
                             fault = "enforce")
           c1 == t.calls \o <<Call("enforce_call", "enforce", e)>>
       IN IF e # "none" THEN Raise(e, t.target, c1, b)
          ELSE LET r == add_user_to_group(b, user_id, group_id, fault = "primary")
                   c2 == c1 \o <<Call("add_user_to_group", "primary", r.err)>>
               IN IF r.err # "none" THEN Raise(r.err, t.target, c2, r.backend)
                  ELSE Return("none", {}, NO_CONTENT, t.target, c2, r.backend)

UserGroupCRUDResource_delete(b, group_id, user_id, permit, fault) ==
    LET t == _build_enforcement_target_attr(b, user_id, group_id, fault)
    IN IF t.err # "none" THEN Raise(t.err, EmptyTarget, t.calls, b)
       ELSE
       LET e == enforce_call("identity:remove_user_from_group", t.target, permit,
                             fault = "enforce")
           c1 == t.calls \o <<Call("enforce_call", "enforce", e)>>
       IN IF e # "none" THEN Raise(e, t.target, c1, b)
          ELSE LET r == remove_user_from_group(b, user_id, group_id, fault = "primary")
                   c2 == c1 \o <<Call("remove_user_from_group", "primary", r.err)>>
               IN IF r.err # "none" THEN Raise(r.err, t.target, c2, r.backend)
                  ELSE Return("none", {}, NO_CONTENT, t.target, c2, r.backend)

----------------------------------------------------------------------------
(* The requests.  A request names the operation, the path parameters, the  *)
(* body, the enforcer's decision and the injected failure.                 *)

Request(op, g, u, body, permit, fault) ==
    [op |-> op, group_id |-> g, user_id |-> u, body |-> body,
     permit |-> permit, fault |-> fault]

GroupFaults == {"none", "enforce", "primary"}
GroupUsersFaults == {"none", "target_group", "enforce", "primary"}
TargetFaults == {"none", "target_group", "target_user", "enforce", "primary"}

(* The decision matters only when no failure is injected. *)
Decisions(f) == IF f = "none" THEN BOOLEAN ELSE {TRUE}

InvalidBody == [id |-> NoId, name |-> "", valid |-> FALSE]
(* A client may put any id in the body, also one that names no group. *)
BodyIds == NoId..(NGroups + 1)
Bodies == [id : BodyIds, name : Names, valid : {TRUE}] \cup {InvalidBody}
CreateBodies == {body \in Bodies : body.id = NoId}

(* GroupAPI: the resource each verb and path is routed to.  `new_id` is    *)
(* the identifier the backend gives a group it creates.                    *)
dispatch(b, req, new_id) ==
    CASE req.op = "get_group" ->
           GroupsResource_get(b, req.group_id, req.permit, req.fault)
      [] req.op = "list_groups" ->
           GroupsResource_get(b, NoId, req.permit, req.fault)
      [] req.op = "create_group" ->
           post(b, new_id, req.body, req.permit, req.fault)
      [] req.op = "update_group" ->
           patch(b, req.group_id, req.body, req.permit, req.fault)
      [] req.op = "delete_group" ->
           GroupsResource_delete(b, req.group_id, req.permit, req.fault)
      [] req.op = "list_users_in_group" ->
           GroupUsersResource_get(b, req.group_id, req.permit, req.fault)
      [] req.op = "check_user_in_group" ->
           UserGroupCRUDResource_get(b, req.group_id, req.user_id, req.permit, req.fault)
      [] req.op = "add_user_to_group" ->
           put(b, req.group_id, req.user_id, req.permit, req.fault)
      [] req.op = "remove_user_from_group" ->
           UserGroupCRUDResource_delete(b, req.group_id, req.user_id, req.permit,
                                        req.fault)

(* The state after the handler of `req` ran with result `res`. *)
Handled(req, res) ==
    /\ before' = Backend
    /\ request' = req
    /\ response' = res.response
    /\ target' = res.target
    /\ calls' = res.calls
    /\ groups' = res.backend.groups
    /\ users' = res.backend.users
    /\ members' = res.backend.members

GetGroup ==
    \E g \in GroupIds, f \in GroupFaults : \E p \in Decisions(f) :
        Handled(Request("get_group", g, NoId, NoBody, p, f),
                GroupsResource_get(Backend, g, p, f))

ListGroups ==
    \E f \in GroupFaults : \E p \in Decisions(f) :
        Handled(Request("list_groups", NoId, NoId, NoBody, p, f),
                GroupsResource_get(Backend, NoId, p, f))

CreateGroup ==
    \E new_id \in GroupIds \ DOMAIN groups, body \in CreateBodies,
       f \in GroupFaults : \E p \in Decisions(f) :
        Handled(Request("create_group", NoId, NoId, body, p, f),
                post(Backend, new_id, body, p, f))

UpdateGroup ==
    \E g \in GroupIds, body \in Bodies, f \in GroupFaults : \E p \in Decisions(f) :
        Handled(Request("update_group", g, NoId, body, p, f),
                patch(Backend, g, body, p, f))

DeleteGroup ==
    \E g \in GroupIds, f \in GroupFaults : \E p \in Decisions(f) :
        Handled(Request("delete_group", g, NoId, NoBody, p, f),
                GroupsResource_delete(Backend, g, p, f))

ListUsersInGroup ==
    \E g \in GroupIds, f \in GroupUsersFaults : \E p \in Decisions(f) :
        Handled(Request("list_users_in_group", g, NoId, NoBody, p, f),
                GroupUsersResource_get(Backend, g, p, f))

CheckUserInGroup ==
    \E g \in GroupIds, u \in UserIds, f \in TargetFaults : \E p \in Decisions(f) :
        Handled(Request("check_user_in_group", g, u, NoBody, p, f),
                UserGroupCRUDResource_get(Backend, g, u, p, f))

AddUserToGroup ==
    \E g \in GroupIds, u \in UserIds, f \in TargetFaults : \E p \in Decisions(f) :
        Handled(Request("add_user_to_group", g, u, NoBody, p, f),
                put(Backend, g, u, p, f))

RemoveUserFromGroup ==
    \E g \in GroupIds, u \in UserIds, f \in TargetFaults : \E p \in Decisions(f) :
        Handled(Request("remove_user_from_group", g, u, NoBody, p, f),
                UserGroupCRUDResource_delete(Backend, g, u, p, f))

NoRequest == Request("none", NoId, NoId, NoBody, TRUE, "none")
NoResponse == [outcome |-> "none", status |-> 0, kind |-> "none", items |-> {}]

Init ==
    /\ groups = [g \in {} |-> ""]
    /\ users \in SUBSET UserIds
    /\ members = {}
    /\ before = Backend
    /\ request = NoRequest
    /\ response = NoResponse
    /\ target = EmptyTarget
    /\ calls = <<>>

Next ==
    \/ GetGroup
    \/ ListGroups
    \/ CreateGroup
    \/ UpdateGroup
    \/ DeleteGroup
    \/ ListUsersInGroup
    \/ CheckUserInGroup
    \/ AddUserToGroup
    \/ RemoveUserFromGroup

Spec == Init /\ [][Next]_vars

----------------------------------------------------------------------------
(* Vocabulary of the properties, over the last handled request. *)

MembershipOps == {"check_user_in_group", "add_user_to_group", "remove_user_from_group"}
TargetOps == MembershipOps \cup {"list_users_in_group"}
ReadOnlyOps == {"get_group", "list_groups", "list_users_in_group", "check_user_in_group"}

(* The primary backend call of each operation. *)
Primary(op) ==
    CASE op = "get_group" -> "get_group"
      [] op = "list_groups" -> "list_groups"
      [] op = "create_group" -> "create_group"
      [] op = "update_group" -> "update_group"
      [] op = "delete_group" -> "delete_group"
      [] op = "list_users_in_group" -> "list_users_in_group"
      [] op = "check_user_in_group" -> "check_user_in_group"
      [] op = "add_user_to_group" -> "add_user_to_group"
      [] op = "remove_user_from_group" -> "remove_user_from_group"
      [] OTHER -> "none"

Handling == request.op # "none"
NoFault == request.fault = "none"
Made(ph) == {i \in DOMAIN calls : calls[i].phase = ph}
Enforced == Made("enforce") # {}
Denied == \E i \in Made("enforce") : calls[i].err = "Forbidden"
Permitted == \E i \in Made("enforce") : calls[i].err = "none"
PrimaryCalled ==
    \E i \in Made("primary") : calls[i].call = Primary(request.op)
GroupExisted == request.group_id \in DOMAIN before.groups
UserExisted == request.user_id \in before.users
WasMember == <<request.user_id, request.group_id>> \in before.members
EmptyResponse ==
    response.outcome = "OK" /\ response.status = NO_CONTENT
        /\ response.kind = "none" /\ response.items = {}

(* A NotFound the target-building lookups absorb. *)
Masked(c) ==
    /\ c.phase = "target"
    /\ \/ c.call = "get_group" /\ c.err = "GroupNotFound"
       \/ c.call = "get_user" /\ c.err = "UserNotFound"

(* The backends that differ from b only in whether group g and user u exist. *)
WithoutGroup(b, g) ==
    [b EXCEPT !.groups = [x \in DOMAIN b.groups \ {g} |-> b.groups[x]],
              !.members = {m \in b.members : m[2] # g}]
WithGroup(b, g, n) ==
    [b EXCEPT !.groups = [x \in DOMAIN b.groups \cup {g} |->
                             IF x \in DOMAIN b.groups THEN b.groups[x] ELSE n]]
WithoutUser(b, u) ==
    [b EXCEPT !.users = @ \ {u}, !.members = {m \in b.members : m[1] # u}]
WithUser(b, u) == [b EXCEPT !.users = @ \cup {u}]
GroupVariants(b, g) == {b, WithoutGroup(b, g)} \cup {WithGroup(b, g, n) : n \in Names}
UserVariants(b, u) == IF u = NoId THEN {b} ELSE {b, WithoutUser(b, u), WithUser(b, u)}
Variants(b, g, u) == UNION {UserVariants(x, u) : x \in GroupVariants(b, g)}

----------------------------------------------------------------------------
(* C1: a caller the policy denies gets Forbidden from check/add/remove     *)
(* membership and from list-users-in-group, and gets the same Forbidden    *)
(* when the same request runs against any backend that differs only in     *)
(* whether the referenced group and/or user exists.                        *)
C1_DeniedSameOutcome ==
    (request.op \in TargetOps /\ NoFault /\ ~request.permit) =>
        /\ response.outcome = "Forbidden"
        /\ response = dispatch(before, request, NoId).response
        /\ \A b2 \in Variants(before, request.group_id, request.user_id) :
               dispatch(b2, request, NoId).response = response

C1_Witness ==
    /\ request.op = "check_user_in_group" /\ NoFault /\ ~request.permit
    /\ GroupExisted /\ UserExisted
    /\ response.outcome = "Forbidden"
    /\ \E b2 \in Variants(before, request.group_id, request.user_id) :
           request.group_id \notin DOMAIN b2.groups /\ request.user_id \notin b2.users

(* C2: the target builder never raises NotFound; the target it returns has *)
(* key group exactly when the group exists and key user exactly when the   *)
(* user exists; with both absent it is empty and enforcement still runs.   *)
C2_TargetKeys ==
    (request.op \in MembershipOps /\ NoFault) =>
        LET t == _build_enforcement_target_attr(before, request.user_id,
                                                request.group_id, request.fault)
        IN /\ t.err = "none"
           /\ ("group" \in DOMAIN t.target) <=> GroupExisted
           /\ ("user" \in DOMAIN t.target) <=> UserExisted
           /\ GroupExisted => t.target["group"] = GroupRef(before, request.group_id)
           /\ UserExisted => t.target["user"] = UserRef(before, request.user_id)
           /\ (~GroupExisted /\ ~UserExisted) => t.target = EmptyTarget
           /\ Enforced
           /\ target = t.target

C2_Witness ==
    /\ request.op \in MembershipOps /\ NoFault
    /\ ~GroupExisted /\ ~UserExisted
    /\ target = EmptyTarget /\ Enforced

(* C3: in every handler enforcement precedes the primary backend call;     *)
(* when the enforcer denies, the outcome is Forbidden, the primary call is *)
(* not made and groups, users and memberships are unchanged.               *)
C3_ForbiddenFirst ==
    Handling =>
        /\ (NoFault /\ ~request.permit) => Denied
        /\ Denied => /\ response.outcome = "Forbidden"
                     /\ Made("primary") = {}
                     /\ Backend = before
        /\ \A i \in Made("primary") :
               \E j \in Made("enforce") : j < i /\ calls[j].err = "none"

C3_Witness ==
    /\ request.op = "delete_group" /\ Denied
    /\ ~GroupExisted
    /\ response.outcome = "Forbidden"

(* C4: update group, once enforcement passed and the body is valid, calls  *)
(* update_group iff the body's id is absent or equals the path group_id;   *)
(* with a different id it fails with ValidationError without the call.     *)
C4_MatchingId ==
    (request.op = "update_group" /\ Permitted /\ request.body.valid) =>
        LET matching == request.body.id = NoId \/ request.body.id = request.group_id
        IN /\ PrimaryCalled <=> matching
           /\ ~matching => /\ response.outcome = "ValidationError"
                           /\ Backend = before

C4_Witness ==
    /\ request.op = "update_group" /\ Permitted /\ request.body.valid
    /\ request.body.id \notin {NoId, request.group_id}
    /\ GroupExisted /\ request.body.name # before.groups[request.group_id]
    /\ response.outcome = "ValidationError"

(* C5: when policy permits and the group or the user is missing, add,      *)
(* remove and check membership still make their primary call and its       *)
(* NotFound reaches the caller; PUT with the group present and the user    *)
(* missing enforces on exactly {group: g} and ends in UserNotFound.        *)
C5_NotFoundPropagates ==
    (request.op \in MembershipOps /\ NoFault /\ request.permit) =>
        /\ (~GroupExisted \/ ~UserExisted) =>
               /\ PrimaryCalled
               /\ response.outcome \in NotFoundKinds
               /\ response.outcome = calls[Len(calls)].err
               /\ calls[Len(calls)].phase = "primary"
        /\ (request.op = "add_user_to_group" /\ GroupExisted /\ ~UserExisted) =>
               /\ target = ("group" :> GroupRef(before, request.group_id))
               /\ response.outcome = "UserNotFound"

C5_Witness ==
    /\ request.op = "add_user_to_group" /\ NoFault /\ request.permit
    /\ GroupExisted /\ ~UserExisted
    /\ response.outcome = "UserNotFound"

(* C6: the only failures a handler absorbs are GroupNotFound of the        *)
(* target-building get_group and UserNotFound of the target-building       *)
(* get_user; any other failure of a lookup, of the enforcer or of a        *)
(* primary call ends the handler and is the outcome, never a success.      *)
C6_OnlyTargetNotFoundMasked ==
    \A i \in DOMAIN calls :
        calls[i].err # "none" =>
            IF Masked(calls[i])
            THEN i < Len(calls) /\ calls[i + 1].call \in {"get_user", "enforce_call"}
            ELSE i = Len(calls) /\ response.outcome = calls[i].err

C6_Witness ==
    /\ request.op = "list_users_in_group" /\ request.fault = "target_group"
    /\ response.outcome = "Unexpected"
    /\ ~Enforced

(* C7: check membership, when policy permits, returns 204 with an empty    *)
(* body exactly when the user is a member of the group, and otherwise ends *)
(* in the NotFound of check_user_in_group.                                 *)
C7_CheckMembership ==
    (request.op = "check_user_in_group" /\ NoFault) =>
        /\ response.outcome = "OK" => (EmptyResponse /\ WasMember)
        /\ request.permit =>
               /\ EmptyResponse <=> WasMember
               /\ ~WasMember => /\ response.outcome \in NotFoundKinds
                                /\ PrimaryCalled

C7_Witness ==
    /\ request.op = "check_user_in_group" /\ NoFault /\ request.permit
    /\ WasMember /\ EmptyResponse

(* C8: delete group, once enforcement passed, returns an empty body with   *)
(* 204 if delete_group succeeds and ends in NotFound, without a 204, if    *)
(* the group does not exist.                                               *)
C8_DeleteGroup ==
    (request.op = "delete_group" /\ NoFault /\ Permitted) =>
        IF GroupExisted
        THEN EmptyResponse /\ request.group_id \notin DOMAIN groups
        ELSE /\ response.outcome = "GroupNotFound"
             /\ response.status # NO_CONTENT
             /\ PrimaryCalled

C8_Witness ==
    /\ request.op = "delete_group" /\ NoFault /\ Permitted
    /\ GroupExisted /\ EmptyResponse
    /\ \E m \in before.members : m[2] = request.group_id

(* C9: list users in group enforces on a target that has key group exactly *)
(* when the group exists and never key user; the lookup's GroupNotFound is *)
(* absorbed before enforcement, and with policy permitting and the group   *)
(* missing the NotFound of list_users_in_group reaches the caller.         *)
C9_ListUsersTarget ==
    (request.op = "list_users_in_group" /\ NoFault) =>
        /\ Enforced
        /\ ("group" \in DOMAIN target) <=> GroupExisted
        /\ "user" \notin DOMAIN target
        /\ calls[1] = Call("get_group", "target",
                           IF GroupExisted THEN "none" ELSE "GroupNotFound")
        /\ calls[2].phase = "enforce"
        /\ (request.permit /\ ~GroupExisted) =>
               /\ response.outcome = "GroupNotFound"
               /\ calls[Len(calls)] = Call("list_users_in_group", "primary",
                                           "GroupNotFound")

C9_Witness ==
    /\ request.op = "list_users_in_group" /\ NoFault /\ request.permit
    /\ ~GroupExisted
    /\ target = EmptyTarget
    /\ response.outcome = "GroupNotFound"

(* C10: get group, list groups, list users in group and check membership,  *)
(* and the target-building step of every membership handler, make only     *)
(* lookup, list and check calls and leave groups, users and memberships as *)
(* they were, whatever the outcome.                                        *)
C10_ReadOnly ==
    /\ request.op \in ReadOnlyOps =>
           /\ Backend = before
           /\ \A i \in DOMAIN calls :
                  calls[i].call \in {"get_group", "get_user", "list_groups",
                                     "list_users_in_group", "check_user_in_group",
                                     "enforce_call"}
    /\ \A i \in Made("target") : calls[i].call \in {"get_group", "get_user"}
    /\ (Handling /\ Made("primary") = {}) => Backend = before

C10_Witness ==
    /\ request.op = "check_user_in_group" /\ NoFault /\ request.permit
    /\ GroupExisted /\ UserExisted /\ ~WasMember
    /\ response.outcome = "NotFound"
    /\ Backend = before

====
